---------------------------- MODULE Spec2Model ----------------------------
(***************************************************************************)
(* Model of the capture pipeline of src/components/VideoGenerator.tsx:     *)
(* the VideoGenerator component (start, the MediaRecorder handlers), the   *)
(* format probe getSupportedMimeType and the timeline driver               *)
(* playAnimation with its per-tick callback frame.                         *)
(*                                                                         *)
(* JavaScript runs one task at a time, so every action below is one task   *)
(* of the event loop together with the microtasks it leaves behind: the    *)
(* click handler up to its first await, one requestAnimationFrame          *)
(* callback (and, on the last one, the continuation of start after the     *)
(* await), one MediaRecorder event task.                                   *)
(*                                                                         *)
(* The platform is modelled by what the code relies on.  A MediaRecorder   *)
(* records from rec.start() until rec.stop() and stops in no other way;    *)
(* rec.stop() queues one task that fires the last dataavailable and then   *)
(* stop.  While it records it may deliver fragments of any size, empty     *)
(* ones included (the handler at line 36 tests for them).  captureStream,  *)
(* the MediaRecorder constructor and rec.start() may throw, and so may a   *)
(* drawing call inside a tick.  performance.now() only grows; it is read   *)
(* when playAnimation is entered and once per tick.                        *)
(***************************************************************************)
EXTENDS Integers, Sequences, FiniteSets, TLC

(* ------------------------------ bounds -------------------------------- *)
MaxRuns == 2          \* clicks on the button that are modelled
MaxFragments == 1     \* fragments an encoder delivers before it is stopped
FragSizes == {0, 1}   \* byte sizes of a delivered fragment (0: empty)
Deltas == {7500, 7501}  \* ms between two reads of performance.now()
MaxProbeMs == 15001   \* largest first-tick instant of TimelineSpec

Runs == 1..MaxRuns

(* ------------------------- program constants -------------------------- *)
DURATION_MS == 15000

candidates ==
  << "video/webm;codecs=vp9", "video/webm;codecs=vp8", "video/webm",
     "video/mp4;codecs=h264", "video/mp4" >>

DefaultErrorText == "Failed to generate video"

(* ------------------------ environment inputs -------------------------- *)
\* What MediaRecorder.isTypeSupported answers in this browser.
SupportedSets ==
  { {},
    {"video/mp4;codecs=h264", "video/mp4"},
    {"video/webm;codecs=vp8", "video/webm"} }

Undefined == "undefined"
\* Values a platform call may throw: with a message, or without one.
Thrown == { [message |-> "SecurityError"], [message |-> Undefined] }
NotSupportedError == [message |-> "NotSupportedError"]

\* Where the synchronous part of start() may throw.
FailPoints == {"none", "captureStream", "recStart"}

NoBlob == [bytes |-> << >>, type |-> "null"]
NoFrame == [run |-> 0, ms |-> 0, phase |-> "None", encoder |-> "none"]
NoError == [message |-> "none"]

VARIABLES
  recState,          \* useState<GenerationState>
  blobUrl,           \* useState: the blob behind the download URL, or NoBlob
  error,             \* useState<string | null>; "null" when unset
  chunksRef,         \* chunksRef.current: the fragments buffered
  mediaRecorderRef,  \* mediaRecorderRef.current: the run whose rec it holds
  supported,         \* the types MediaRecorder.isTypeSupported accepts
  runs,              \* calls of start() so far
  pc,                \* where each call of start() is
  stream,            \* the capture stream each call opened
  rec,               \* state of the MediaRecorder each call constructed
  mimeType,          \* rec.mimeType of each call's recorder
  clockStart,        \* playAnimation's `start` of each call
  now,               \* performance.now()
  ticks,             \* history: frame callbacks each call has run
  delivered,         \* history: fragments each encoder has delivered
  thrown,            \* history: what each call's catch block caught
  artifacts,         \* history: blobs each call's onstop has assembled
  lastFrame          \* history: the latest frame drawn

vars == << recState, blobUrl, error, chunksRef, mediaRecorderRef, supported,
           runs, pc, stream, rec, mimeType, clockStart, now, ticks,
           delivered, thrown, artifacts, lastFrame >>

(* --------------------------- pure functions --------------------------- *)

\* getSupportedMimeType: the first candidate the browser supports, else
\* "video/webm".
getSupportedMimeType(sup) ==
  LET hits == { i \in 1..Len(candidates) : candidates[i] \in sup }
  IN  IF hits # {}
        THEN candidates[CHOOSE i \in hits : \A j \in hits : i <= j]
        ELSE "video/webm"

\* Variant: the button is never disabled.
ButtonEnabled_Always(state) == TRUE

\* <button disabled={recState === "recording"}>
ButtonEnabled(state) == state # "recording"

\* Variant: the catch block reports the fixed text whatever was thrown.
ErrorText_Generic(e) == DefaultErrorText

\* e?.message ?? "Failed to generate video"
ErrorText(e) ==
  IF e.message # Undefined THEN e.message ELSE DefaultErrorText

\* rec.ondataavailable = (e) => e.data.size && chunksRef.current.push(e.data)
OnDataAvailable(chunks, data) ==
  IF data.size # 0 THEN Append(chunks, data) ELSE chunks

\* The bytes of one fragment: `size` bytes, each tagged with the encoder
\* (run) and the position of the fragment in that encoder's output.
FragmentBytes(f) == [i \in 1..f.size |-> << f.run, f.seq >>]

\* new Blob(parts): the parts' bytes, concatenated in order.
RECURSIVE BlobBytes(_)
BlobBytes(parts) ==
  IF parts = << >> THEN << >>
  ELSE FragmentBytes(Head(parts)) \o BlobBytes(Tail(parts))

\* new Blob(chunksRef.current, { type: rec.mimeType })
NewBlob(parts, type) == [bytes |-> BlobBytes(parts), type |-> type]

\* Variant: the boundaries belong to the earlier phase.
PhaseOf_BoundaryEarlier(ms) ==
  IF ms <= 3000 THEN "Intro"
  ELSE IF ms <= 8000 THEN "Install"
  ELSE IF ms <= 12000 THEN "Prevent"
  ELSE IF ms <= 15000 THEN "CTA"
  ELSE "None"

\* Variant: the last branch is a plain else.
PhaseOf_NoUpperGuard(ms) ==
  IF ms < 3000 THEN "Intro"
  ELSE IF ms < 8000 THEN "Install"
  ELSE IF ms < 12000 THEN "Prevent"
  ELSE "CTA"

\* The phase frame() draws at elapsed time ms; "None" when no branch of the
\* if-chain is taken (only the background is painted).
PhaseOf(ms) ==
  IF ms < 3000 THEN "Intro"
  ELSE IF ms < 8000 THEN "Install"
  ELSE IF ms < 12000 THEN "Prevent"
  ELSE IF ms <= 15000 THEN "CTA"
  ELSE "None"

\* if (now < end) requestAnimationFrame(frame); else resolve();
KeepTicking(t, end) == t < end

\* Variant: the recorder is not started before the timeline.
RecorderStart_Skipped(state) == state

\* MediaRecorder.start(): the recorder records.
RecorderStart(state) == "recording"

\* MediaRecorder.stop(): the recorder is inactive; its last dataavailable
\* and its stop event are queued as a task.
RecorderStop(state) == "inactive"

\* Variant: the buffer is not emptied when a run starts.
ResetChunks_Kept(chunks) == chunks

\* chunksRef.current = []
ResetChunks(chunks) == << >>

\* Variant: the previous download URL is kept when a run starts.
ClearBlobUrl_Kept(url) == url

\* setBlobUrl(null)
ClearBlobUrl(url) == NoBlob

(* ------------------------------- Init --------------------------------- *)
Init ==
  /\ recState = "idle"
  /\ blobUrl = NoBlob
  /\ error = "null"
  /\ chunksRef = << >>
  /\ mediaRecorderRef = 0
  /\ supported \in SupportedSets
  /\ runs = 0
  /\ pc = [r \in Runs |-> "notStarted"]
  /\ stream = [r \in Runs |-> "none"]
  /\ rec = [r \in Runs |-> "none"]
  /\ mimeType = [r \in Runs |-> "none"]
  /\ clockStart = [r \in Runs |-> 0]
  /\ now = 0
  /\ ticks = [r \in Runs |-> 0]
  /\ delivered = [r \in Runs |-> << >>]
  /\ thrown = [r \in Runs |-> NoError]
  /\ artifacts = [r \in Runs |-> << >>]
  /\ lastFrame = NoFrame

(* ------------------------------ actions ------------------------------- *)

\* The catch block of start(): setError(...); setRecState("error").
Catch(r, e) ==
  /\ error' = ErrorText(e)
  /\ recState' = "error"
  /\ thrown' = [thrown EXCEPT ![r] = e]
  /\ pc' = [pc EXCEPT ![r] = "failed"]

\* A click on the button: start() up to `await playAnimation(canvas)`,
\* with the synchronous part of playAnimation (the clock is read and the
\* first tick is requested).
Start(fail, e) ==
  /\ ButtonEnabled(recState)
  /\ runs < MaxRuns
  /\ LET r == runs + 1
         type == getSupportedMimeType(supported)
     IN
     /\ runs' = r
     /\ blobUrl' = ClearBlobUrl(blobUrl)
     /\ UNCHANGED << supported, now, ticks, delivered, artifacts, lastFrame >>
     /\ IF fail = "captureStream"
          THEN \* canvas.captureStream(30) throws
            /\ Catch(r, e)
            /\ UNCHANGED << chunksRef, mediaRecorderRef, stream, rec,
                            mimeType, clockStart >>
        ELSE IF type \notin supported
          THEN \* new MediaRecorder(...) rejects the mimeType
            /\ Catch(r, NotSupportedError)
            /\ stream' = [stream EXCEPT ![r] = "live"]
            /\ UNCHANGED << chunksRef, mediaRecorderRef, rec, mimeType,
                            clockStart >>
        ELSE IF fail = "recStart"
          THEN \* rec.start() throws: the recorder stays inactive
            /\ Catch(r, e)
            /\ chunksRef' = ResetChunks(chunksRef)
            /\ mediaRecorderRef' = r
            /\ stream' = [stream EXCEPT ![r] = "live"]
            /\ rec' = [rec EXCEPT ![r] = "inactive"]
            /\ mimeType' = [mimeType EXCEPT ![r] = type]
            /\ UNCHANGED clockStart
        ELSE
            /\ chunksRef' = ResetChunks(chunksRef)
            /\ mediaRecorderRef' = r
            /\ recState' = "recording"
            /\ error' = "null"
            /\ stream' = [stream EXCEPT ![r] = "live"]
            /\ rec' = [rec EXCEPT ![r] = RecorderStart("inactive")]
            /\ mimeType' = [mimeType EXCEPT ![r] = type]
            /\ clockStart' = [clockStart EXCEPT ![r] = now]
            /\ pc' = [pc EXCEPT ![r] = "ticking"]
            /\ UNCHANGED thrown

\* One requestAnimationFrame callback of run r, d ms after the clock was
\* last read.  `throws`: a drawing call of the callback throws.
Frame(r, d, throws) ==
  /\ pc[r] = "ticking"
  /\ LET t == now + d
         ms == t - clockStart[r]
         end == clockStart[r] + DURATION_MS
     IN
     /\ now' = t
     /\ ticks' = [ticks EXCEPT ![r] = @ + 1]
     /\ UNCHANGED << recState, blobUrl, error, chunksRef, mediaRecorderRef,
                     supported, runs, stream, mimeType, clockStart,
                     delivered, thrown, artifacts >>
     /\ IF throws
          THEN \* the exception leaves the callback: no further tick is
               \* requested and the promise is never settled
            /\ pc' = [pc EXCEPT ![r] = "crashed"]
            /\ UNCHANGED << rec, lastFrame >>
          ELSE
            /\ lastFrame' = [run |-> r, ms |-> ms, phase |-> PhaseOf(ms),
                             encoder |-> rec[r]]
            /\ IF KeepTicking(t, end)
                 THEN UNCHANGED << pc, rec >>
                 ELSE \* resolve(); start() resumes: rec.stop()
                   /\ pc' = [pc EXCEPT ![r] = "stopping"]
                   /\ rec' = [rec EXCEPT ![r] = RecorderStop(@)]

\* The encoder of run r delivers a fragment while it records.
DataAvailable(r, size) ==
  /\ rec[r] = "recording"
  /\ Len(delivered[r]) < MaxFragments
  /\ LET data == [run |-> r, seq |-> Len(delivered[r]) + 1, size |-> size]
     IN
     /\ delivered' = [delivered EXCEPT ![r] = Append(@, data)]
     /\ chunksRef' = OnDataAvailable(chunksRef, data)
  /\ UNCHANGED << recState, blobUrl, error, mediaRecorderRef, supported,
                  runs, pc, stream, rec, mimeType, clockStart, now, ticks,
                  thrown, artifacts, lastFrame >>

\* The task rec.stop() queued: the last dataavailable, then the stop event.
StopTask(r, size) ==
  /\ pc[r] = "stopping"
  /\ LET data == [run |-> r, seq |-> Len(delivered[r]) + 1, size |-> size]
         chunks == OnDataAvailable(chunksRef, data)
         blob == NewBlob(chunks, mimeType[r])
     IN
     /\ delivered' = [delivered EXCEPT ![r] = Append(@, data)]
     /\ chunksRef' = chunks
     /\ blobUrl' = blob
     /\ artifacts' = [artifacts EXCEPT ![r] = Append(@, blob)]
     /\ recState' = "done"
     /\ pc' = [pc EXCEPT ![r] = "done"]
  /\ UNCHANGED << error, mediaRecorderRef, supported, runs, stream, rec,
                  mimeType, clockStart, now, ticks, thrown, lastFrame >>

Next ==
  \/ \E fail \in FailPoints, e \in Thrown : Start(fail, e)
  \/ \E r \in Runs, d \in Deltas, throws \in BOOLEAN : Frame(r, d, throws)
  \/ \E r \in Runs, size \in FragSizes : DataAvailable(r, size)
  \/ \E r \in Runs, size \in FragSizes : StopTask(r, size)

Spec == Init /\ [][Next]_vars

\* The display keeps delivering refresh ticks and the event loop runs every
\* task that is queued: a pending frame callback and a pending recorder
\* task are eventually run.
FairSpec ==
  /\ Spec
  /\ WF_vars(\E r \in Runs, d \in Deltas, throws \in BOOLEAN :
               Frame(r, d, throws))
  /\ WF_vars(\E r \in Runs, size \in FragSizes : StopTask(r, size))

(* --------------------- the timeline, instant by instant ---------------- *)
\* The state start() leaves behind when nothing throws: the first run has
\* read the clock and waits for its first tick.
TimelineInit ==
  /\ recState = "recording"
  /\ blobUrl = NoBlob
  /\ error = "null"
  /\ chunksRef = << >>
  /\ mediaRecorderRef = 1
  /\ supported \in { sup \in SupportedSets :
                       getSupportedMimeType(sup) \in sup }
  /\ runs = 1
  /\ pc = [r \in Runs |-> IF r = 1 THEN "ticking" ELSE "notStarted"]
  /\ stream = [r \in Runs |-> IF r = 1 THEN "live" ELSE "none"]
  /\ rec = [r \in Runs |-> IF r = 1 THEN RecorderStart("inactive") ELSE "none"]
  /\ mimeType = [r \in Runs |-> IF r = 1 THEN getSupportedMimeType(supported)
                                         ELSE "none"]
  /\ clockStart = [r \in Runs |-> 0]
  /\ now = 0
  /\ ticks = [r \in Runs |-> 0]
  /\ delivered = [r \in Runs |-> << >>]
  /\ thrown = [r \in Runs |-> NoError]
  /\ artifacts = [r \in Runs |-> << >>]
  /\ lastFrame = NoFrame

\* The first tick of that run, at any instant up to MaxProbeMs.
FirstFrame == \E d \in 0..MaxProbeMs : ticks[1] = 0 /\ Frame(1, d, FALSE)

TimelineSpec == TimelineInit /\ [][FirstFrame]_vars

(* ------------------------------ properties ---------------------------- *)
InProgress(r) == pc[r] \in {"ticking", "stopping", "crashed"}
NonEmpty(f) == f.size > 0

\* C1: in every run the encoder is started before the first tick and is
\* stopped only after the last tick, when playAnimation has resolved: a run
\* that waits for a tick has its encoder recording, every frame drawn was
\* drawn while the encoder of its run recorded, and an encoder that was
\* started and is no longer recording belongs to a run whose timeline has
\* resolved.
C1_CaptureWindow ==
  /\ \A r \in Runs :
       /\ pc[r] = "ticking" => rec[r] = "recording"
       /\ ticks[r] > 0 => rec[r] # "none"
       /\ (ticks[r] > 0 /\ rec[r] # "recording") =>
             pc[r] \in {"stopping", "done"}
  /\ lastFrame.run # 0 => lastFrame.encoder = "recording"

C1_Witness ==
  \E r \in Runs :
    pc[r] = "done" /\ ticks[r] >= 2 /\ lastFrame.run = r /\ rec[r] = "inactive"

\* C2: a final artifact (the blob behind the download URL) exists if and
\* only if the most recent run completed without error: none in the error
\* state, none while idle or recording, always one in the done state.
C2_ArtifactIffDone == (blobUrl # NoBlob) <=> (recState = "done")

C2_Witness ==
  /\ recState = "error"
  /\ runs = 2
  /\ pc[1] = "done"
  /\ Len(artifacts[1]) = 1
  /\ blobUrl = NoBlob

\* C3: every run whose timeline completes and whose encoder stop is
\* processed produces exactly one artifact, and that artifact has non-zero
\* size.
C3_OneNonEmptyArtifact ==
  \A r \in Runs :
    pc[r] = "done" =>
      /\ Len(artifacts[r]) = 1
      /\ Len(artifacts[r][1].bytes) > 0

\* C4: exactly one capture session is active at a time: at most one encoder
\* records, at most one run is in progress, the button is disabled while a
\* run is in progress, and no encoder of an earlier run still records once
\* a new run has started (also after a run that ended in error).
C4_OneSession ==
  /\ Cardinality({ r \in Runs : rec[r] = "recording" }) <= 1
  /\ Cardinality({ r \in Runs : InProgress(r) }) <= 1
  /\ (\E r \in Runs : InProgress(r)) => ~ButtonEnabled(recState)
  /\ \A r \in Runs : r < runs => rec[r] # "recording"

C4_Witness ==
  /\ runs = 2
  /\ pc[1] = "failed"
  /\ rec[1] = "inactive"
  /\ rec[2] = "recording"
  /\ ticks[2] > 0

\* C5: when an error occurs after the encoder has been started (here: a
\* tick callback throws while rendering), the encoder is stopped, the
\* stream is released and the buffered fragments are discarded.
C5_ErrorReleasesCapture ==
  \A r \in Runs :
    pc[r] = "crashed" =>
      /\ rec[r] # "recording"
      /\ stream[r] # "live"
      /\ chunksRef = << >>

\* C6: once started, a run always finishes: every run that enters the
\* recording state eventually reaches the done state or the error state.
C6_RunFinishes == (recState = "recording") ~> (recState \in {"done", "error"})

C8_PhaseTotal ==
  (lastFrame.run # 0 /\ lastFrame.ms \in 0..15000) =>
    LET ms == lastFrame.ms
        ph == lastFrame.phase
    IN  /\ ph \in {"Intro", "Install", "Prevent", "CTA"}
        /\ (ph = "Intro")   <=> (0 <= ms /\ ms < 3000)
        /\ (ph = "Install") <=> (3000 <= ms /\ ms < 8000)
        /\ (ph = "Prevent") <=> (8000 <= ms /\ ms < 12000)
        /\ (ph = "CTA")     <=> (12000 <= ms /\ ms <= 15000)

C8_Witness == lastFrame.run = 1 /\ lastFrame.ms = 12000 /\ lastFrame.phase = "CTA"

\* C9: if opening the capture stream, constructing the encoder (which is
\* where an unsupported format is rejected) or starting the encoder fails,
\* the run ends in the error state with the message of what was thrown, no
\* tick of that run ever fires, its encoder never records and it produces
\* no artifact.
C9_InitFailure ==
  \A r \in Runs :
    pc[r] = "failed" =>
      /\ ticks[r] = 0
      /\ artifacts[r] = << >>
      /\ rec[r] # "recording"
      /\ thrown[r] # NoError
      /\ r = runs =>
           /\ recState = "error"
           /\ blobUrl = NoBlob
           /\ thrown[r].message # Undefined => error = thrown[r].message

C9_Witness ==
  \E r \in Runs :
    /\ r = runs
    /\ pc[r] = "failed"
    /\ rec[r] = "inactive"
    /\ error = "SecurityError"

\* C10: the artifact of a completed run is the concatenation, in arrival
\* order, of exactly the non-empty fragments the encoder of that run
\* delivered: no empty fragment is buffered, none is reordered, dropped or
\* duplicated, none of an earlier run is included.
C10_ArtifactIsDelivered ==
  \A r \in Runs :
    pc[r] = "done" =>
      /\ Len(artifacts[r]) = 1
      /\ artifacts[r][1].bytes = BlobBytes(SelectSeq(delivered[r], NonEmpty))
      /\ r = runs =>
           /\ chunksRef = SelectSeq(delivered[r], NonEmpty)
           /\ blobUrl = artifacts[r][1]

C10_Witness ==
  /\ runs = 2
  /\ pc[1] = "done"
  /\ pc[2] = "done"
  /\ Len(artifacts[1][1].bytes) > 0
  /\ Len(delivered[2]) = 2
  /\ Len(blobUrl.bytes) = 2

=============================================================================
